---- MODULE Spec2Model ----
(***************************************************************************)
(* Model of receiver_win32_fixed.cpp: a TCP receiver that reads one        *)
(* length-prefixed payload per connection (recv_uint32_be, recv_all),      *)
(* saves it through a temporary file (write_file_atomic), publishes the    *)
(* arrival (g_last_received_path, g_file_received) and, in the main        *)
(* thread, waits for the hotkey 7+8+9 to type the saved file.              *)
(*                                                                         *)
(* Time is counted in seconds.  A recv that returns WSAEWOULDBLOCK or      *)
(* WSAETIMEDOUT has let some seconds of Delays pass; elapsed is the value  *)
(* of GetTickCount() - start, which the code compares to the timeout.      *)
(***************************************************************************)
EXTENDS Integers, Sequences, FiniteSets, TLC

\* ------------------------------------------------------------ bounds
\* longest payload a client of the model delivers
MaxPayload == 2
\* connections accepted in one run
MaxConns == 2
\* polls of the release loop that are counted while the keys stay down
MaxHeld == 2
\* bytes of the longest file that is typed
MaxText == 201
\* the byte values payloads are made of
PayloadBytes == {65, 66}
\* seconds a recv may take before it reports would-block / timed-out
Delays == {4, 7}

\* ------------------------------------------------- program constants
SOCKET_TIMEOUT_SECONDS == 10
MAX_REASONABLE_PAYLOAD == 50 * 1024 * 1024
RecvChunk == 4096
PrefixLen == 4
\* setsockopt(SO_RCVTIMEO, 10 s) on a blocking socket: recv reports
\* WSAETIMEDOUT only once the whole receive timeout has passed
BlockingDelays == {SOCKET_TIMEOUT_SECONDS + 1}
OutPath == "received_data.txt"

\* a path at which no file exists
NoFile == <<-1>>
\* the file found at the output path when the program starts, if any
OldFile == <<79, 76, 68>>

Min(a, b) == IF a < b THEN a ELSE b

\* GetTickCount() - start, kept exact up to the first value over the timeout
CapT(t) == IF t > SOCKET_TIMEOUT_SECONDS THEN SOCKET_TIMEOUT_SECONDS + 1 ELSE t

\* the sender's htonl / struct.pack(">I"): 4 bytes, most significant first
EncodeBE(n) ==
  << (n \div 16777216) % 256, (n \div 65536) % 256, (n \div 256) % 256, n % 256 >>

\* recv_uint32_be's assembly: (buf[0] << 24) | (buf[1] << 16) | (buf[2] << 8) | buf[3]
DecodeBE(b) == b[1] * 16777216 + b[2] * 65536 + b[3] * 256 + b[4]

LengthAcceptedNoZeroCheck(len) == len <= MAX_REASONABLE_PAYLOAD

\* handle_single_client's sanity check, negated: the length is accepted
LengthAccepted(len) == ~(len = 0 \/ len > MAX_REASONABLE_PAYLOAD)

AppendChunkAtFront(buf, chunk) == chunk \o buf

\* out.insert(out.end(), buf.data(), buf.data() + r)
AppendChunk(buf, chunk) == buf \o chunk

\* recv_all asks for at most 4096 bytes per recv
ToRecv(nbytes, total) == Min(RecvChunk, nbytes - total)

PayloadSeqs(n) == [1..n -> PayloadBytes]

\* what a client may set out to send: a declared length and the bytes after it
Frames ==
  UNION { { [declared |-> n, data |-> d] : d \in PayloadSeqs(n) } : n \in 1..MaxPayload }
  \cup { [declared |-> n, data |-> d] :
           n \in {0, MAX_REASONABLE_PAYLOAD, MAX_REASONABLE_PAYLOAD + 1},
           d \in PayloadSeqs(1) }

\* the frames sent by the clients of a run that is about the two threads
\* rather than about framing: one valid frame of each length, one rejected
PlainFrames ==
  { [declared |-> n, data |-> [i \in 1..n |-> 65]] : n \in 1..MaxPayload }
  \cup { [declared |-> 0, data |-> <<65>>] }

VARIABLES
  \* shared between the threads
  g_should_terminate, g_file_received, g_last_received_path, cs_owner,
  g_send_ack,
  \* server thread
  spc, listen_sock, client_sock, got, payload_len, out, elapsed, hres,
  \* the connected client and the bytes it has not delivered yet
  wire, peerClosed,
  \* the file system at the output path
  fs_file, fs_tmp,
  \* main thread (coordinator) and the keyboard
  mpc, path, hotkey,
  \* the post-arrival command and the threads that are running it
  g_post_cmd, post_running,
  \* the call of type_file_into_active_window in progress
  ty,
  \* observations about the current connection, and counters
  conn, stats, typed

shared == <<g_should_terminate, g_file_received, g_last_received_path, cs_owner, g_send_ack>>
srv == <<spc, listen_sock, client_sock, got, payload_len, out, elapsed, hres>>
cli == <<wire, peerClosed>>
fs == <<fs_file, fs_tmp>>
postv == <<g_post_cmd, post_running>>
mainv == <<mpc, path, hotkey, postv, ty>>
obsv == <<conn, stats, typed>>
vars == <<shared, srv, cli, fs, mainv, obsv>>

NoFrame == [declared |-> 0, data |-> <<>>]

ConnInit(f, file, tmp) ==
  [ frame |-> f, idle |-> 0, withinIdle |-> TRUE, sawClose |-> FALSE,
    sawError |-> FALSE, ackSent |-> 0, wrotePath |-> FALSE, setFlag |-> FALSE,
    file0 |-> file, tmp0 |-> tmp, wfault |-> "none", wret |-> "none",
    recvCalled |-> FALSE, ackFailed |-> FALSE ]

\* the locals of type_file_into_active_window at position pc, before
\* anything is loaded (submitted: the events handed to SendInput so far;
\* batches: the sizes of the SendInput calls; short: some call reported fewer
\* events than it was given)
TyAt(pc) ==
  [ pc |-> pc, opened |-> FALSE,
    contents |-> <<>>, wide |-> <<>>, inputs |-> <<>>, idx |-> 0,
    submitted |-> <<>>, batches |-> <<>>, short |-> FALSE, ret |-> "none" ]

\* the state when the main loop starts, for a given --postcmd option
InitWith(cmd) ==
  /\ g_post_cmd = cmd
  /\ ty = TyAt("t_idle")
  /\ post_running = 0
  /\ g_should_terminate = FALSE
  /\ g_file_received = FALSE
  /\ g_last_received_path = OutPath
  /\ cs_owner = "none"
  /\ g_send_ack \in BOOLEAN
  /\ spc = "s_top"
  /\ listen_sock = FALSE
  /\ client_sock = FALSE
  /\ got = <<>>
  /\ payload_len = 0
  /\ out = <<>>
  /\ elapsed = 0
  /\ hres = "none"
  /\ wire = <<>>
  /\ peerClosed = FALSE
  /\ fs_file \in {NoFile, OldFile}
  /\ fs_tmp = NoFile
  /\ mpc = "m_loop"
  /\ path = ""
  /\ hotkey = FALSE
  /\ conn = ConnInit(NoFrame, NoFile, NoFile)
  /\ stats = [conns |-> 0, saves |-> 0, batches |-> 0, unconsumed |-> 0,
              merged |-> 0, cycles |-> 0, typings |-> 0, cycleTypings |-> 0,
              held |-> 0, upSeen |-> FALSE,
              fileGen |-> 0, typedGen |-> 0, dupTyped |-> FALSE,
              openListen |-> 0, openClient |-> 0, postCreated |-> 0,
              savedPayload |-> NoFile]
  /\ typed = NoFile

\* the default: no --postcmd option, g_post_cmd = ""
Init == InitWith("")

\* ------------------------------------------------------ server thread

\* handle_single_client returns false: nothing is sent, nothing is published
\* (c: what has been observed of the connection by then)
HandlerFail(why, c) ==
  /\ hres' = why
  /\ spc' = "s_close"
  /\ conn' = c
  /\ UNCHANGED shared

CloseSocketLeak(n) == n

\* closesocket(s): of the n sockets of that kind the thread has open, one less
\* (openListen, openClient: the listening and client sockets it has open)
CloseSocket(n) == n - 1

\* while (!g_should_terminate.load()) at the top of server_thread_func
SrvLoopTop ==
  /\ spc = "s_top"
  /\ spc' = IF g_should_terminate THEN "s_exit" ELSE "s_socket"
  /\ UNCHANGED <<listen_sock, client_sock, got, payload_len, out, elapsed, hres>>
  /\ UNCHANGED <<shared, cli, fs, mainv, obsv>>

\* socket() returns a listening socket
SrvSocketOk ==
  /\ spc = "s_socket"
  /\ listen_sock' = TRUE
  /\ spc' = "s_bind"
  /\ UNCHANGED <<client_sock, got, payload_len, out, elapsed, hres>>
  /\ stats' = [stats EXCEPT !.openListen = @ + 1]
  /\ UNCHANGED <<shared, cli, fs, mainv, conn, typed>>

\* socket() returns INVALID_SOCKET: log, Sleep(500), continue
SrvSocketFail ==
  /\ spc = "s_socket"
  /\ listen_sock' = FALSE
  /\ spc' = "s_fail_socket"
  /\ UNCHANGED <<client_sock, got, payload_len, out, elapsed, hres>>
  /\ UNCHANGED <<shared, cli, fs, mainv, obsv>>

\* bind() succeeds
SrvBindOk ==
  /\ spc = "s_bind"
  /\ spc' = "s_listen"
  /\ UNCHANGED <<listen_sock, client_sock, got, payload_len, out, elapsed, hres>>
  /\ UNCHANGED <<shared, cli, fs, mainv, obsv>>

\* bind() fails: closesocket(listen_sock), Sleep(1000), continue
SrvBindFail ==
  /\ spc = "s_bind"
  /\ listen_sock' = FALSE
  /\ spc' = "s_fail_bind"
  /\ UNCHANGED <<client_sock, got, payload_len, out, elapsed, hres>>
  /\ stats' = [stats EXCEPT !.openListen = CloseSocket(@)]
  /\ UNCHANGED <<shared, cli, fs, mainv, conn, typed>>

\* listen() succeeds
SrvListenOk ==
  /\ spc = "s_listen"
  /\ spc' = "s_select"
  /\ UNCHANGED <<listen_sock, client_sock, got, payload_len, out, elapsed, hres>>
  /\ UNCHANGED <<shared, cli, fs, mainv, obsv>>

\* listen() fails: closesocket(listen_sock), Sleep(1000), continue
SrvListenFail ==
  /\ spc = "s_listen"
  /\ listen_sock' = FALSE
  /\ spc' = "s_fail_listen"
  /\ UNCHANGED <<client_sock, got, payload_len, out, elapsed, hres>>
  /\ stats' = [stats EXCEPT !.openListen = CloseSocket(@)]
  /\ UNCHANGED <<shared, cli, fs, mainv, conn, typed>>

\* select() with a 1 s timeout reports a waiting client
SrvSelectReady ==
  /\ spc = "s_select"
  /\ stats.conns < MaxConns
  /\ spc' = "s_accept"
  /\ UNCHANGED <<listen_sock, client_sock, got, payload_len, out, elapsed, hres>>
  /\ UNCHANGED <<shared, cli, fs, mainv, obsv>>

\* sel == 0: nobody connected within the second; close the listening socket, continue
SrvSelectTimeout ==
  /\ spc = "s_select"
  /\ listen_sock' = FALSE
  /\ spc' = "s_top"
  /\ UNCHANGED <<client_sock, got, payload_len, out, elapsed, hres>>
  /\ stats' = [stats EXCEPT !.openListen = CloseSocket(@)]
  /\ UNCHANGED <<shared, cli, fs, mainv, conn, typed>>

\* sel == SOCKET_ERROR: closesocket(listen_sock), Sleep(200), continue
SrvSelectFail ==
  /\ spc = "s_select"
  /\ listen_sock' = FALSE
  /\ spc' = "s_fail_select"
  /\ UNCHANGED <<client_sock, got, payload_len, out, elapsed, hres>>
  /\ stats' = [stats EXCEPT !.openListen = CloseSocket(@)]
  /\ UNCHANGED <<shared, cli, fs, mainv, conn, typed>>

\* the pcs of an iteration that failed before a client was served
SrvFailPcs == {"s_fail_socket", "s_fail_bind", "s_fail_listen", "s_fail_select", "s_fail_accept"}

ContinueTargetBreak == "s_exit"

\* continue: the next iteration of the while loop
ContinueTarget == "s_top"

\* the Sleep after a failed step, then continue
SrvContinue ==
  /\ spc \in SrvFailPcs
  /\ spc' = ContinueTarget
  /\ UNCHANGED <<listen_sock, client_sock, got, payload_len, out, elapsed, hres>>
  /\ UNCHANGED <<shared, cli, fs, mainv, obsv>>

\* accept() returns the client's socket; then the entry of handle_single_client
\* and of recv_uint32_be (got = 0, start = GetTickCount()).
\* The client that connected has a frame f it sets out to send.
SrvAcceptOk(F) ==
  /\ spc = "s_accept"
  /\ \E f \in F :
       /\ wire' = EncodeBE(f.declared) \o f.data
       /\ conn' = ConnInit(f, fs_file, fs_tmp)
  /\ peerClosed' = FALSE
  /\ client_sock' = TRUE
  /\ stats' = [stats EXCEPT !.conns = @ + 1, !.openClient = @ + 1]
  /\ got' = <<>>
  /\ payload_len' = 0
  /\ elapsed' = 0
  /\ spc' = "h_len"
  /\ UNCHANGED <<listen_sock, out, hres, typed>>
  /\ UNCHANGED <<shared, fs, mainv>>

\* accept() returns INVALID_SOCKET: closesocket(listen_sock), continue
SrvAcceptFail ==
  /\ spc = "s_accept"
  /\ listen_sock' = FALSE
  /\ spc' = "s_fail_accept"
  /\ UNCHANGED <<client_sock, got, payload_len, out, elapsed, hres>>
  /\ stats' = [stats EXCEPT !.openListen = CloseSocket(@)]
  /\ UNCHANGED <<shared, cli, fs, mainv, conn, typed>>

TimedOutNever(e) == FALSE

\* (GetTickCount() - start) > timeout_seconds * 1000
TimedOut(e) == e > SOCKET_TIMEOUT_SECONDS

\* one iteration of recv_uint32_be's loop: recv(s, buf + got, 4 - got)
RecvUint32Step(D) ==
  /\ spc = "h_len"
  /\ \/ \* r > 0: got += r; after the fourth byte the length is assembled
        /\ ~peerClosed
        /\ \E r \in 1..Min(PrefixLen - Len(got), Len(wire)) :
             /\ got' = got \o SubSeq(wire, 1, r)
             /\ wire' = SubSeq(wire, r + 1, Len(wire))
        /\ conn' = [conn EXCEPT !.idle = 0]
        /\ IF Len(got') = PrefixLen
             THEN payload_len' = DecodeBE(got') /\ spc' = "h_check"
             ELSE payload_len' = payload_len /\ spc' = spc
        /\ UNCHANGED <<elapsed, hres, peerClosed, shared>>
     \/ \* r == 0 (peer closed), WSAEWOULDBLOCK or WSAETIMEDOUT: fail once the
        \* deadline counted from the start of the read has passed, else
        \* Sleep(10) and retry
        /\ \E d \in D, closed \in BOOLEAN :
             /\ peerClosed => closed
             /\ peerClosed' = closed
             /\ elapsed' = CapT(elapsed + d)
             /\ LET c == [conn EXCEPT !.idle = CapT(@ + d),
                                      !.sawClose = @ \/ closed,
                                      !.withinIdle =
                                         @ /\ CapT(conn.idle + d) <= SOCKET_TIMEOUT_SECONDS]
                IN IF TimedOut(elapsed')
                     THEN HandlerFail("fail_len", c)
                     ELSE /\ conn' = c
                          /\ UNCHANGED <<spc, hres, shared>>
        /\ UNCHANGED <<got, payload_len, wire>>
     \/ \* r < 0 with another error: return false
        /\ ~peerClosed
        /\ HandlerFail("fail_len", [conn EXCEPT !.sawError = TRUE])
        /\ UNCHANGED <<got, payload_len, elapsed, cli>>
  /\ UNCHANGED <<listen_sock, client_sock, out>>
  /\ UNCHANGED <<fs, mainv, stats, typed>>

\* the sanity check of the declared length; an accepted length enters
\* recv_all (out.clear(), total = 0, start = GetTickCount())
CheckLength ==
  /\ spc = "h_check"
  /\ IF LengthAccepted(payload_len)
       THEN /\ spc' = "h_payload"
            /\ out' = <<>>
            /\ elapsed' = 0
            /\ conn' = [conn EXCEPT !.recvCalled = TRUE, !.idle = 0]
            /\ UNCHANGED <<hres, shared>>
       ELSE /\ HandlerFail("fail_invalid", conn)
            /\ UNCHANGED <<out, elapsed>>
  /\ UNCHANGED <<listen_sock, client_sock, got, payload_len>>
  /\ UNCHANGED <<cli, fs, mainv, stats, typed>>

\* one iteration of recv_all's loop: recv of at most ToRecv bytes, appended to out
RecvAllStep(D) ==
  /\ spc = "h_payload"
  /\ \/ \* r > 0: append, total += r, start = GetTickCount()
        /\ ~peerClosed
        /\ \E r \in 1..Min(ToRecv(payload_len, Len(out)), Len(wire)) :
             /\ out' = AppendChunk(out, SubSeq(wire, 1, r))
             /\ wire' = SubSeq(wire, r + 1, Len(wire))
        /\ elapsed' = 0
        /\ conn' = [conn EXCEPT !.idle = 0]
        /\ spc' = IF Len(out') < payload_len THEN spc ELSE "w_open"
        /\ UNCHANGED <<hres, peerClosed, shared>>
     \/ \* r == 0: connection closed by peer, return false
        /\ peerClosed' = TRUE
        /\ HandlerFail("fail_payload", [conn EXCEPT !.sawClose = TRUE])
        /\ UNCHANGED <<out, elapsed, wire>>
     \/ \* WSAEWOULDBLOCK or WSAETIMEDOUT: fail past the deadline, else Sleep(20), retry
        /\ ~peerClosed
        /\ \E d \in D :
             /\ elapsed' = CapT(elapsed + d)
             /\ LET c == [conn EXCEPT !.idle = CapT(@ + d),
                                      !.withinIdle =
                                         @ /\ CapT(conn.idle + d) <= SOCKET_TIMEOUT_SECONDS]
                IN IF TimedOut(elapsed')
                     THEN HandlerFail("fail_payload", c)
                     ELSE /\ conn' = c
                          /\ UNCHANGED <<spc, hres, shared>>
        /\ UNCHANGED <<out, cli>>
     \/ \* another recv error: return false
        /\ ~peerClosed
        /\ HandlerFail("fail_payload", [conn EXCEPT !.sawError = TRUE])
        /\ UNCHANGED <<out, elapsed, cli>>
  /\ UNCHANGED <<listen_sock, client_sock, got, payload_len>>
  /\ UNCHANGED <<fs, mainv, stats, typed>>

\* ----------------------------------------------------- write_file_atomic

\* what ofs.write leaves in the temporary file when it fails part-way
PartialWrites(data) == { SubSeq(data, 1, k) : k \in 0..(Len(data) - 1) }

\* std::ofstream ofs(tmp, binary): creates or truncates path.tmp; when the
\* open fails the function logs and returns false
WriteOpen ==
  /\ spc = "w_open"
  /\ \/ /\ fs_tmp' = <<>>
        /\ spc' = "w_write"
        /\ UNCHANGED <<hres, conn, shared>>
     \/ /\ fs_tmp' = fs_tmp
        /\ HandlerFail("fail_save", [conn EXCEPT !.wfault = "open", !.wret = "false"])
  /\ UNCHANGED <<listen_sock, client_sock, got, payload_len, out, elapsed>>
  /\ UNCHANGED <<fs_file, cli, mainv, stats, typed>>

\* ofs.write(data); ofs.close(): the stream's state is not looked at, so a
\* write that failed after a partial flush continues to the rename
WriteData ==
  /\ spc = "w_write"
  /\ \/ /\ fs_tmp' = out
        /\ conn' = conn
     \/ /\ fs_tmp' \in PartialWrites(out)
        /\ conn' = [conn EXCEPT !.wfault = "write"]
  /\ spc' = "w_move"
  /\ UNCHANGED <<listen_sock, client_sock, got, payload_len, out, elapsed, hres>>
  /\ UNCHANGED <<fs_file, shared, cli, mainv, stats, typed>>

\* MoveFileExA(tmp, path, MOVEFILE_REPLACE_EXISTING): the temporary file
\* becomes the output file; on failure DeleteFileA(tmp) and return false
\* (fileGen: how many payloads have been moved onto the output path;
\* savedPayload: the payload of the last save that returned true)
WriteMove ==
  /\ spc = "w_move"
  /\ \/ /\ fs_file' = fs_tmp
        /\ fs_tmp' = NoFile
        /\ conn' = [conn EXCEPT !.wret = "true"]
        /\ stats' = [stats EXCEPT !.fileGen = @ + 1, !.savedPayload = out]
        /\ spc' = "h_ack"
        /\ UNCHANGED <<hres, shared>>
     \/ /\ fs_file' = fs_file
        /\ fs_tmp' = NoFile
        /\ stats' = stats
        /\ HandlerFail("fail_save",
             [conn EXCEPT !.wfault = IF @ = "none" THEN "move" ELSE @,
                          !.wret = "false"])
  /\ UNCHANGED <<listen_sock, client_sock, got, payload_len, out, elapsed>>
  /\ UNCHANGED <<cli, mainv, typed>>

\* ------------------------------------- handle_single_client, after the save

AfterAckFailureAbort == "s_close"

\* else log_warn("Failed to send ACK (non-critical)"): the handler goes on
\* to publish the arrival
AfterAckFailure == "h_enter"

\* if (g_send_ack) send(client_sock, &ack, 1): one byte, or a failed send
\* that is only logged
SendAck ==
  /\ spc = "h_ack"
  /\ IF g_send_ack
       THEN \/ conn' = [conn EXCEPT !.ackSent = @ + 1] /\ spc' = "h_enter"
            \/ conn' = [conn EXCEPT !.ackFailed = TRUE] /\ spc' = AfterAckFailure
       ELSE conn' = conn /\ spc' = "h_enter"
  /\ UNCHANGED <<listen_sock, client_sock, got, payload_len, out, elapsed, hres>>
  /\ UNCHANGED <<shared, cli, fs, mainv, stats, typed>>

\* EnterCriticalSection(&g_path_cs)
SrvEnterCS ==
  /\ spc = "h_enter"
  /\ cs_owner = "none"
  /\ cs_owner' = "server"
  /\ spc' = "h_incs"
  /\ UNCHANGED <<g_should_terminate, g_file_received, g_last_received_path, g_send_ack>>
  /\ UNCHANGED <<listen_sock, client_sock, got, payload_len, out, elapsed, hres>>
  /\ UNCHANGED <<cli, fs, mainv, obsv>>

SrvLeaveCSSkipped == "server"

\* the owner of g_path_cs after the server's LeaveCriticalSection(&g_path_cs)
SrvLeaveCS == "none"

\* g_last_received_path = out_path; LeaveCriticalSection(&g_path_cs)
SrvSetPath ==
  /\ spc = "h_incs"
  /\ g_last_received_path' = OutPath
  /\ cs_owner' = SrvLeaveCS
  /\ conn' = [conn EXCEPT !.wrotePath = TRUE]
  /\ spc' = "h_flag"
  /\ UNCHANGED <<g_should_terminate, g_file_received, g_send_ack>>
  /\ UNCHANGED <<listen_sock, client_sock, got, payload_len, out, elapsed, hres>>
  /\ UNCHANGED <<cli, fs, mainv, stats, typed>>

FlagAfterSaveLost == FALSE

\* the value stored by g_file_received.store(true)
FlagAfterSave == TRUE

\* g_file_received.store(true); return true
SrvSetFlag ==
  /\ spc = "h_flag"
  /\ g_file_received' = FlagAfterSave
  /\ conn' = [conn EXCEPT !.setFlag = TRUE]
  /\ stats' = [stats EXCEPT !.saves = @ + 1,
                            !.unconsumed = @ + 1,
                            !.batches = IF stats.unconsumed = 0 THEN @ + 1 ELSE @]
  /\ hres' = "ok"
  /\ spc' = "s_close"
  /\ UNCHANGED <<g_should_terminate, g_last_received_path, cs_owner, g_send_ack>>
  /\ UNCHANGED <<listen_sock, client_sock, got, payload_len, out, elapsed>>
  /\ UNCHANGED <<cli, fs, mainv, typed>>

\* back in server_thread_func: closesocket(client_sock); closesocket(listen_sock);
\* Sleep(100); the handler's locals are gone
SrvClose ==
  /\ spc = "s_close"
  /\ client_sock' = FALSE
  /\ listen_sock' = FALSE
  /\ got' = <<>>
  /\ payload_len' = 0
  /\ out' = <<>>
  /\ elapsed' = 0
  /\ hres' = "none"
  /\ wire' = <<>>
  /\ peerClosed' = FALSE
  /\ conn' = ConnInit(NoFrame, NoFile, NoFile)
  /\ stats' = [stats EXCEPT !.openClient = CloseSocket(@),
                            !.openListen = CloseSocket(@)]
  /\ spc' = "s_top"
  /\ UNCHANGED <<shared, fs, mainv, typed>>

ServerNext(D, F) ==
  \/ SrvLoopTop
  \/ SrvSocketOk
  \/ SrvSocketFail
  \/ SrvBindOk
  \/ SrvBindFail
  \/ SrvListenOk
  \/ SrvListenFail
  \/ SrvSelectReady
  \/ SrvSelectTimeout
  \/ SrvSelectFail
  \/ SrvAcceptOk(F)
  \/ SrvAcceptFail
  \/ SrvContinue
  \/ RecvUint32Step(D)
  \/ CheckLength
  \/ RecvAllStep(D)
  \/ WriteOpen
  \/ WriteData
  \/ WriteMove
  \/ SendAck
  \/ SrvEnterCS
  \/ SrvSetPath
  \/ SrvSetFlag
  \/ SrvClose

SpecServer == Init /\ [][ServerNext(Delays, Frames)]_vars

\* g_should_terminate is a process-wide flag; something outside the two
\* loops may set it
ExternalTerminate ==
  /\ ~g_should_terminate
  /\ g_should_terminate' = TRUE
  /\ UNCHANGED <<g_file_received, g_last_received_path, cs_owner, g_send_ack>>
  /\ UNCHANGED <<srv, cli, fs, mainv, obsv>>

\* The server thread keeps running (CreateThread), and socket(), bind() and
\* listen() do not fail for ever.
ServerFair ==
  /\ WF_vars(ServerNext(Delays, PlainFrames))
  /\ SF_vars(SrvSocketOk)
  /\ SF_vars(SrvBindOk)
  /\ SF_vars(SrvListenOk)

SpecServerFair ==
  Init /\ [][ServerNext(Delays, PlainFrames) \/ ExternalTerminate]_vars /\ ServerFair

\* -------------------------------------------- main thread (coordinator)

\* type_file_into_active_window(path): what is typed is what the file holds
\* when it is loaded; a file that cannot be opened types nothing
TypeFile(p) == IF p = OutPath /\ fs_file # NoFile THEN fs_file ELSE <<>>

MainLoopRunsOnce(terminate) == FALSE

\* the condition of the coordinator's loop: !g_should_terminate.load()
MainLoopRuns(terminate) == ~terminate

\* while (!g_should_terminate.load()) { if (g_file_received.load()) ... else Sleep(200) }
MainLoopTop ==
  /\ mpc = "m_loop"
  /\ mpc' = IF ~MainLoopRuns(g_should_terminate) THEN "m_shutdown"
            ELSE IF g_file_received THEN "m_enter" ELSE mpc
  /\ UNCHANGED <<path, hotkey, postv, ty>>
  /\ UNCHANGED <<shared, srv, cli, fs, obsv>>

\* EnterCriticalSection(&g_path_cs)
MainEnterCS ==
  /\ mpc = "m_enter"
  /\ cs_owner = "none"
  /\ cs_owner' = "main"
  /\ mpc' = "m_copy"
  /\ UNCHANGED <<g_should_terminate, g_file_received, g_last_received_path, g_send_ack>>
  /\ UNCHANGED <<path, hotkey, postv, ty>>
  /\ UNCHANGED <<srv, cli, fs, obsv>>

\* std::string path = g_last_received_path; LeaveCriticalSection(&g_path_cs)
MainCopyPath ==
  /\ mpc = "m_copy"
  /\ path' = g_last_received_path
  /\ cs_owner' = "none"
  /\ mpc' = "m_reset"
  /\ UNCHANGED <<g_should_terminate, g_file_received, g_last_received_path, g_send_ack>>
  /\ UNCHANGED <<hotkey, postv, ty>>
  /\ UNCHANGED <<srv, cli, fs, obsv>>

FlagAfterConsumeStale == TRUE

\* the value stored by g_file_received.store(false)
FlagAfterConsume == FALSE

AfterPostCmdLaunchJoined(running) == IF running > 0 THEN "m_join" ELSE "m_wait"

\* run_post_command_async returns once CreateThread has returned (the handle
\* is closed at once, or the failure is logged); the coordinator goes on to
\* its wait-for-hotkey loop whatever threads are running
AfterPostCmdLaunch(running) == "m_wait"

\* g_file_received.store(false); if (!g_post_cmd.empty()) run_post_command_async:
\* CreateThread starts a thread for the command, or fails; then a
\* wait-for-hotkey cycle begins (done = false)
\* (postCreated: how many post-command threads have been created)
MainResetFlag ==
  /\ mpc = "m_reset"
  /\ g_file_received' = FlagAfterConsume
  /\ IF g_post_cmd # ""
       THEN \/ post_running' = post_running + 1
            \/ post_running' = post_running
       ELSE post_running' = post_running
  /\ stats' = [stats EXCEPT !.cycles = @ + 1, !.merged = stats.unconsumed,
                            !.unconsumed = 0, !.cycleTypings = 0, !.held = 0,
                            !.upSeen = FALSE,
                            !.postCreated = @ + (post_running' - post_running)]
  /\ mpc' = AfterPostCmdLaunch(post_running')
  /\ UNCHANGED <<g_should_terminate, g_last_received_path, cs_owner, g_send_ack>>
  /\ UNCHANGED <<path, hotkey, g_post_cmd, ty>>
  /\ UNCHANGED <<srv, cli, fs, conn, typed>>

\* while (!done && !g_should_terminate.load()) { if (hotkey_789_pressed()) ...; Sleep(50) }
\* (upSeen: a poll of this cycle has found the keys up)
MainWaitHotkey ==
  /\ mpc = "m_wait"
  /\ mpc' = IF g_should_terminate THEN "m_loop"
            ELSE IF hotkey THEN "m_type" ELSE mpc
  /\ stats' = IF ~g_should_terminate /\ ~hotkey
                THEN [stats EXCEPT !.upSeen = TRUE] ELSE stats
  /\ UNCHANGED <<path, hotkey, postv, ty>>
  /\ UNCHANGED <<shared, srv, cli, fs, conn, typed>>

\* type_file_into_active_window(path); a failure is logged, not retried
\* (typedGen: which saved payload the file held when it was loaded;
\*  dupTyped: an earlier call has typed that same payload)
MainType ==
  /\ mpc = "m_type"
  /\ typed' = TypeFile(path)
  /\ stats' = [stats EXCEPT !.typings = @ + 1, !.cycleTypings = @ + 1,
                            !.typedGen = stats.fileGen,
                            !.dupTyped = @ \/ stats.typedGen = stats.fileGen]
  /\ mpc' = "m_release"
  /\ UNCHANGED <<path, hotkey, postv, ty>>
  /\ UNCHANGED <<shared, srv, cli, fs, conn>>

ReleaseWaitOverNoCheck == TRUE

\* while (hotkey_789_pressed()) Sleep(100): the loop is left when the keys are up
ReleaseWaitOver == ~hotkey

\* done = true; Sleep(50); the inner loop ends and the outer loop starts over
AfterRelease == "m_loop"

MainWaitRelease ==
  /\ mpc = "m_release"
  /\ IF ReleaseWaitOver
       THEN mpc' = AfterRelease /\ stats' = stats
       ELSE mpc' = mpc /\ stats' = [stats EXCEPT !.held = Min(@ + 1, MaxHeld)]
  /\ UNCHANGED <<path, hotkey, postv, ty>>
  /\ UNCHANGED <<shared, srv, cli, fs, conn, typed>>

\* the keyboard: GetAsyncKeyState sees 7, 8 and 9 all down, or not
KeyChange ==
  /\ hotkey' = ~hotkey
  /\ UNCHANGED <<mpc, path, postv, ty>>
  /\ UNCHANGED <<shared, srv, cli, fs, obsv>>

\* postcmd_thread_func: system(cmd) returns, with whatever exit code, and
\* the thread ends; it may also never return
PostCmdFinish ==
  /\ post_running > 0
  /\ post_running' = post_running - 1
  /\ UNCHANGED <<mpc, path, hotkey, g_post_cmd, ty>>
  /\ UNCHANGED <<shared, srv, cli, fs, obsv>>

MainNext ==
  \/ MainLoopTop
  \/ MainEnterCS
  \/ MainCopyPath
  \/ MainResetFlag
  \/ MainWaitHotkey
  \/ MainType
  \/ MainWaitRelease

Next == ServerNext(BlockingDelays, PlainFrames) \/ MainNext \/ KeyChange

Spec == Init /\ [][Next]_vars

\* the timeout of WaitForSingleObject(serverHandle, 2000), in seconds
WaitServerSeconds == 2

\* the server thread is in a step that can last longer than the wait: a recv
\* on the client socket, which blocks for up to the receive timeout
ServerMayOutlastWait ==
  /\ spc \in {"h_len", "h_payload"}
  /\ SOCKET_TIMEOUT_SECONDS > WaitServerSeconds

\* after the main loop: g_should_terminate.store(true);
\* WaitForSingleObject(serverHandle, 2000) returns when the server thread has
\* ended, or after 2 s while it is still running; CloseHandle(serverHandle)
MainWaitServer ==
  /\ mpc = "m_shutdown"
  /\ spc = "s_exit" \/ ServerMayOutlastWait
  /\ g_should_terminate' = TRUE
  /\ mpc' = "m_teardown"
  /\ UNCHANGED <<g_file_received, g_last_received_path, cs_owner, g_send_ack>>
  /\ UNCHANGED <<path, hotkey, postv, ty>>
  /\ UNCHANGED <<srv, cli, fs, obsv>>

\* WSACleanup(); DeleteCriticalSection(&g_path_cs); log; return 0
MainTeardown ==
  /\ mpc = "m_teardown"
  /\ mpc' = "m_done"
  /\ UNCHANGED <<path, hotkey, postv, ty>>
  /\ UNCHANGED <<shared, srv, cli, fs, obsv>>

MainShutdownNext == MainWaitServer \/ MainTeardown

\* The whole program with a shutdown request arriving from outside:
\* both threads keep being scheduled, and a poll that is possible again and
\* again is eventually made; the keyboard is free to do anything, including
\* keeping the keys down for ever.
ShutdownNext ==
  \/ ServerNext(BlockingDelays, PlainFrames)
  \/ MainNext
  \/ KeyChange
  \/ ExternalTerminate
  \/ MainShutdownNext

SpecShutdown ==
  /\ Init
  /\ [][ShutdownNext]_vars
  /\ WF_vars(ServerNext(BlockingDelays, PlainFrames))
  /\ SF_vars(MainNext)
  /\ WF_vars(MainShutdownNext)

\* the single frame sent by the clients of a run with a post-arrival command
OneFrame == { [declared |-> 1, data |-> <<65>>] }

\* The program started with --postcmd: every consumed arrival starts a
\* thread for the command.  The server thread and the coordinator keep being
\* scheduled; nothing is assumed about the post-command threads.
PostNext ==
  \/ ServerNext(BlockingDelays, OneFrame)
  \/ MainNext
  \/ KeyChange
  \/ PostCmdFinish

SpecPost ==
  /\ InitWith("cmd")
  /\ [][PostNext]_vars
  /\ WF_vars(ServerNext(BlockingDelays, OneFrame))
  /\ WF_vars(MainNext)

\* ------------------------------------- type_file_into_active_window
\* The call, step by step, for files of up to MaxText bytes.

\* const size_t batch = 200
SendBatch == 200

\* the bytes of the files that are typed: 'A', 'B' and the two bytes of
\* U+00E9 (0xC3 0xA9); no lead byte of a 3- or 4-byte sequence occurs
TextPatterns == { <<65>>, <<65, 195, 169, 66>> }

\* the file of n bytes that repeats pattern pat (cut where n ends)
TextOf(pat, n) == [i \in 1..n |-> pat[((i - 1) % Len(pat)) + 1]]

TypeTexts == { TextOf(pat, n) : pat \in TextPatterns, n \in 0..MaxText }

\* MultiByteToWideChar(CP_UTF8, 0, ...) on such bytes: an ASCII byte is one
\* unit, a 2-byte sequence is one unit, any other byte becomes U+FFFD
\* (a continuation byte is consumed exactly when a 2-byte lead precedes it)
Utf8ToWide(b) ==
  LET consumed(i) == i > 1 /\ b[i] \in 128..191 /\ b[i - 1] \in 194..223
      starts == { i \in 1..Len(b) : ~consumed(i) }
      nth(k) == CHOOSE i \in starts :
                  Cardinality({ j \in starts : j <= i }) = k
      unit(i) == IF b[i] < 128 THEN b[i]
                 ELSE IF b[i] \in 194..223 /\ i < Len(b) /\ b[i + 1] \in 128..191
                   THEN (b[i] - 192) * 64 + (b[i + 1] - 128)
                 ELSE 65533
  IN [k \in 1..Cardinality(starts) |-> unit(nth(k))]

\* for each wchar a KEYEVENTF_UNICODE event, then the same with KEYEVENTF_KEYUP
BuildInputs(w) ==
  [k \in 1..(2 * Len(w)) |->
     [wScan |-> w[(k + 1) \div 2], keyup |-> (k % 2 = 0)]]

NextIdxBySent(idx, tosend, sent) == idx + sent

\* idx += tosend, whatever SendInput reported
NextIdx(idx, tosend, sent) == idx + tosend

\* std::ifstream ifs(path): the open fails and the call returns false, or the
\* whole file is loaded; an empty file returns true at once
TypeOpen ==
  /\ ty.pc = "t_open"
  /\ \/ ty' = [ty EXCEPT !.pc = "t_done", !.ret = "false"]
     \/ /\ path = OutPath
        /\ fs_file # NoFile
        /\ ty' = IF fs_file = <<>>
                   THEN [ty EXCEPT !.pc = "t_done", !.opened = TRUE,
                                   !.ret = "true"]
                   ELSE [ty EXCEPT !.pc = "t_convert", !.opened = TRUE,
                                   !.contents = fs_file]
  /\ UNCHANGED <<mpc, path, hotkey, postv>>
  /\ UNCHANGED <<shared, srv, cli, fs, obsv>>

\* the two MultiByteToWideChar calls (either may fail: return false), then
\* the INPUT events are built
TypeConvert ==
  /\ ty.pc = "t_convert"
  /\ \/ ty' = [ty EXCEPT !.pc = "t_done", !.ret = "false"]
     \/ ty' = [ty EXCEPT !.pc = "t_send",
                          !.wide = Utf8ToWide(ty.contents),
                          !.inputs = BuildInputs(Utf8ToWide(ty.contents)),
                          !.idx = 0]
  /\ UNCHANGED <<mpc, path, hotkey, postv>>
  /\ UNCHANGED <<shared, srv, cli, fs, obsv>>

\* one iteration of while (idx < inputs.size()): SendInput of the next
\* tosend events; it reports all of them, or fewer (a warning is logged)
TypeSendBatch ==
  /\ ty.pc = "t_send"
  /\ ty.idx < Len(ty.inputs)
  /\ LET tosend == Min(SendBatch, Len(ty.inputs) - ty.idx)
     IN \E sent \in {0, tosend - 1, tosend} :
          ty' = [ty EXCEPT !.submitted = @ \o SubSeq(ty.inputs, ty.idx + 1,
                                                     Min(ty.idx + tosend, Len(ty.inputs))),
                           !.batches = Append(@, tosend),
                           !.short = @ \/ sent # tosend,
                           !.idx = NextIdx(ty.idx, tosend, sent)]
  /\ UNCHANGED <<mpc, path, hotkey, postv>>
  /\ UNCHANGED <<shared, srv, cli, fs, obsv>>

\* idx has reached inputs.size(): "Typing completed", return true
TypeReturn ==
  /\ ty.pc = "t_send"
  /\ ty.idx >= Len(ty.inputs)
  /\ ty' = [ty EXCEPT !.pc = "t_done", !.ret = "true"]
  /\ UNCHANGED <<mpc, path, hotkey, postv>>
  /\ UNCHANGED <<shared, srv, cli, fs, obsv>>

TypeNext ==
  \/ TypeOpen
  \/ TypeConvert
  \/ TypeSendBatch
  \/ TypeReturn

\* the coordinator has detected the hotkey and calls
\* type_file_into_active_window(path); the output file holds any of the texts
\* or does not exist
InitType ==
  /\ g_post_cmd = ""
  /\ post_running = 0
  /\ ty = TyAt("t_open")
  /\ g_should_terminate = FALSE
  /\ g_file_received = FALSE
  /\ g_last_received_path = OutPath
  /\ cs_owner = "none"
  /\ g_send_ack = TRUE
  /\ spc = "s_top"
  /\ listen_sock = FALSE
  /\ client_sock = FALSE
  /\ got = <<>>
  /\ payload_len = 0
  /\ out = <<>>
  /\ elapsed = 0
  /\ hres = "none"
  /\ wire = <<>>
  /\ peerClosed = FALSE
  /\ fs_file \in TypeTexts \cup {NoFile}
  /\ fs_tmp = NoFile
  /\ mpc = "m_type"
  /\ path = OutPath
  /\ hotkey = TRUE
  /\ conn = ConnInit(NoFrame, NoFile, NoFile)
  /\ stats = [conns |-> 0, saves |-> 0, batches |-> 0, unconsumed |-> 0,
              merged |-> 0, cycles |-> 0, typings |-> 0, cycleTypings |-> 0,
              held |-> 0, upSeen |-> FALSE,
              fileGen |-> 0, typedGen |-> 0, dupTyped |-> FALSE,
              openListen |-> 0, openClient |-> 0, postCreated |-> 0,
              savedPayload |-> NoFile]
  /\ typed = NoFile

SpecType == InitType /\ [][TypeNext]_vars

\* =================================================================
\* Properties
\* =================================================================

\* the frame of the current connection is valid: a declared length in
\* [1, 50 MiB] followed by exactly that many payload bytes
ValidFrame ==
  /\ 1 <= conn.frame.declared
  /\ conn.frame.declared <= 50 * 1024 * 1024
  /\ Len(conn.frame.data) = conn.frame.declared

\* the handler is past both reads
PastReceive == spc \in {"w_open", "w_write", "w_move", "h_ack", "h_enter", "h_incs", "h_flag"}

RecvFailed == hres \in {"fail_len", "fail_payload"}

\* C1: for every valid frame and every chunking of its 4+L bytes, with
\* would-block / timed-out results in between that stay within the idle
\* budget (no gap since the last received byte longer than the timeout, no
\* close, no socket error), recv_uint32_be followed by recv_all succeeds and
\* yields exactly the L payload bytes that were sent, in order.
C1_ChunkingIndependent ==
  (ValidFrame /\ conn.withinIdle /\ ~conn.sawClose /\ ~conn.sawError)
    => /\ ~RecvFailed
       /\ PastReceive => /\ out = conn.frame.data
                         /\ Len(out) = conn.frame.declared

\* the part of C1 that the code does satisfy: whenever both reads succeed,
\* the buffer is the payload that was sent
RecvOkPayloadExact ==
  PastReceive => /\ payload_len = conn.frame.declared
                 /\ out = SubSeq(conn.frame.data, 1, payload_len)
                 /\ Len(out) = payload_len

\* the length lies in [1, 50 MiB]
InRange(n) == 1 <= n /\ n <= 52428800

\* C2: a declared length is accepted iff it lies in [1, 50*1024*1024]; a
\* length of 0 or above the maximum fails the handler before recv_all is
\* called, with every payload byte still unread.
C2_LengthValidatedBeforePayload ==
  /\ conn.recvCalled => InRange(payload_len)
  /\ hres = "fail_invalid" => /\ ~InRange(payload_len)
                             /\ ~conn.recvCalled
                             /\ out = <<>>
                             /\ wire = conn.frame.data
  /\ (spc = "s_close" /\ Len(got) = PrefixLen /\ ~InRange(conn.frame.declared))
       => hres = "fail_invalid"
  /\ (Len(got) = PrefixLen /\ spc # "h_check" /\ InRange(conn.frame.declared))
       => conn.recvCalled

C2_Witness ==
  /\ hres = "fail_invalid"
  /\ payload_len = 52428801
  /\ wire # <<>>

\* C3: at every moment the content at the output path is either the
\* complete previous file or the complete new payload, whatever fault hits
\* write_file_atomic.
C3_FinalPathNeverPartial ==
  client_sock => \/ fs_file = conn.file0
                 \/ /\ Len(out) = payload_len
                    /\ fs_file = out

\* the save went through: the temporary file was opened, written in full
\* and renamed onto the output path
SaveSucceeded == conn.wret = "true" /\ conn.wfault = "none"

\* C6 as stated: for a valid frame whose receive and save both succeed, when
\* handle_single_client returns the output file holds exactly the payload,
\* and the client has been sent one byte 0x01 if acknowledgment is enabled
\* and nothing if it is disabled.
C6_SavedExactlyAndAcked ==
  (spc = "s_close" /\ hres = "ok" /\ ValidFrame /\ SaveSucceeded)
    => /\ fs_file = conn.frame.data
       /\ Len(fs_file) = conn.frame.declared
       /\ conn.ackSent = IF g_send_ack THEN 1 ELSE 0

\* C6 (amended): for a valid frame whose receive and save both succeed, when
\* handle_single_client returns the output file holds exactly the payload,
\* and the client has been sent one byte 0x01 if acknowledgment is enabled
\* and the send did not fail, and nothing otherwise.
C6_SavedExactlyAndAckedUnlessSendFails ==
  (spc = "s_close" /\ hres = "ok" /\ ValidFrame /\ SaveSucceeded)
    => /\ fs_file = conn.frame.data
       /\ Len(fs_file) = conn.frame.declared
       /\ conn.ackSent = IF g_send_ack /\ ~conn.ackFailed THEN 1 ELSE 0

C6_Witness ==
  /\ spc = "s_close"
  /\ hres = "ok"
  /\ SaveSucceeded
  /\ conn.frame.data = <<65, 66>>
  /\ fs_file = <<65, 66>>
  /\ g_send_ack
  /\ conn.ackSent = 1
  /\ wire = <<>>

\* the connection failed before persistence completed: the handler returned
\* false, or the save failed (open, write or rename)
ConnectionFailed == spc = "s_close" /\ (hres # "ok" \/ conn.wfault # "none")

\* C7: a connection that fails before persistence completes (prefix timeout
\* or close, invalid length, payload timeout or close, failed save) has sent
\* no acknowledgment, has not written g_last_received_path and has not set
\* g_file_received; if it failed before the save step, the output file and
\* its .tmp sibling are as they were; and its client socket is closed before
\* the next iteration.
C7_FailedConnectionLeavesNothing ==
  /\ ConnectionFailed
       => /\ conn.ackSent = 0
          /\ ~conn.wrotePath
          /\ ~conn.setFlag
          /\ hres \in {"fail_len", "fail_invalid", "fail_payload"}
               => fs_file = conn.file0 /\ fs_tmp = conn.tmp0
  /\ spc \notin {"h_len", "h_check", "h_payload", "w_open", "w_write", "w_move",
                 "h_ack", "h_enter", "h_incs", "h_flag", "s_close"}
       => ~client_sock

\* the part of C7 that the code does satisfy: every failure the handler
\* detects (it returns false) leaves nothing behind
DetectedFailureLeavesNothing ==
  /\ (spc = "s_close" /\ hres # "ok")
       => /\ conn.ackSent = 0
          /\ ~conn.wrotePath
          /\ ~conn.setFlag
          /\ hres \in {"fail_len", "fail_invalid", "fail_payload"}
               => fs_file = conn.file0 /\ fs_tmp = conn.tmp0
  /\ spc \notin {"h_len", "h_check", "h_payload", "w_open", "w_write", "w_move",
                 "h_ack", "h_enter", "h_incs", "h_flag", "s_close"}
       => ~client_sock

\* C9: after write_file_atomic returns, no path.tmp exists, and any failure
\* of the temporary write or of the replace made it return false.
C9_TmpRemovedAndFailureReported ==
  conn.wret # "none"
    => /\ fs_tmp = NoFile
       /\ conn.wfault # "none" => conn.wret = "false"

\* the coordinator is inside a wait-for-hotkey cycle
InCycle == mpc \in {"m_wait", "m_type", "m_release"}

\* C5: saves that succeed before the coordinator consumes the first of them
\* share one arrival: the coordinator starts one wait-for-hotkey cycle for
\* them (never more cycles than runs of unconsumed saves, and never more than
\* one cycle owed), types at most once in it, and uses the latest path.
C5_SingleSlotArrival ==
  /\ stats.cycles <= stats.batches
  /\ stats.batches <= stats.cycles + 1
  /\ stats.typings <= stats.cycles
  /\ stats.cycleTypings <= 1
  /\ (~g_file_received /\ mpc = "m_loop") => stats.cycles = stats.batches
  /\ mpc \in {"m_reset", "m_wait", "m_type", "m_release"}
       => path = g_last_received_path

C5_Witness ==
  /\ stats.saves = 2
  /\ stats.merged = 2
  /\ stats.cycles = 1
  /\ stats.typings = 1
  /\ mpc = "m_loop"
  /\ ~g_file_received
  /\ typed = fs_file

\* C8: in one cycle a hotkey that stays down over any number of polls makes
\* one call of type_file_into_active_window: typing starts only from the
\* wait-for-hotkey loop with the keys seen down, and after typing the
\* coordinator leaves the wait-for-release loop only when the keys are seen
\* up, and then the cycle is over.
C8_OneTypingPerHeldHotkey ==
  /\ [](stats.cycleTypings <= 1)
  /\ [][mpc' = "m_type" /\ mpc # "m_type" => mpc = "m_wait" /\ hotkey]_vars
  /\ [][mpc = "m_release" /\ mpc' # "m_release" => ~hotkey /\ mpc' = "m_loop"]_vars

C8_Witness ==
  /\ mpc = "m_loop"
  /\ stats.held = 2
  /\ stats.cycleTypings = 1
  /\ ~hotkey

\* the server is listening: it has a listening socket and polls it with select
Listening == spc = "s_select" /\ listen_sock /\ ~client_sock

\* C4: a client that stays silent for longer than the idle timeout has its
\* read fail as a timeout at once; both sockets are then closed and, unless
\* shutdown was requested, the server thread listens again on a new socket.
C4_StallAbortedThenListening ==
  /\ [](~conn.withinIdle => spc = "s_close" /\ RecvFailed)
  /\ (~conn.withinIdle) ~> (spc = "s_top" /\ ~client_sock /\ ~listen_sock)
  /\ (~conn.withinIdle) ~> (g_should_terminate \/ Listening)

C4_Witness ==
  /\ ~conn.withinIdle
  /\ hres = "fail_len"
  /\ got = <<>>
  /\ Len(wire) = PrefixLen + Len(conn.frame.data)
  /\ ~conn.sawClose
  /\ ~g_should_terminate

\* an iteration of the server loop has met an error
IterationFailed ==
  \/ spc \in SrvFailPcs
  \/ spc = "s_close" /\ hres # "ok"
  \/ conn.ackFailed
  \/ conn.wfault # "none"

\* C10: no per-connection error ends the server loop: after a timeout, a
\* peer close, an invalid length, a failed save, a failed ack or a failed
\* socket/bind/listen/select/accept, the thread comes back to the top of its
\* loop and, while g_should_terminate is false, listens again; the loop is
\* left only when g_should_terminate is true.
C10_ErrorsNeverEndServerLoop ==
  /\ [](spc = "s_exit" => g_should_terminate)
  /\ IterationFailed ~> (spc = "s_top")
  /\ IterationFailed ~> (g_should_terminate \/ Listening)

C10_Witness ==
  /\ spc = "s_fail_bind"
  /\ stats.conns = 1
  /\ ~g_should_terminate

\* the coordinator has left its outer loop
MainLoopExited == mpc \in {"m_shutdown", "m_teardown", "m_done"}

\* C11: once g_should_terminate is true every loop exits: the server loop
\* (with the receive loops inside it) and the coordinator's outer,
\* wait-for-hotkey and wait-for-release loops all terminate, whatever the
\* keys and the client do.
C11_AllLoopsExitAfterTerminate ==
  g_should_terminate ~> (spc = "s_exit" /\ MainLoopExited)

\* the part of C11 that the code does satisfy: the server loop and the
\* receive loops exit, and so does the coordinator from its outer loop and
\* from its wait-for-hotkey loop
ServerLoopExitsAfterTerminate ==
  /\ g_should_terminate ~> (spc = "s_exit")
  /\ (g_should_terminate /\ mpc \in {"m_loop", "m_enter", "m_copy", "m_reset", "m_wait"})
       ~> MainLoopExited

\* C12: a failed send of the acknowledgment after a successful save leaves
\* the saved file as the new payload, does not stop the handler from writing
\* g_last_received_path and setting g_file_received, and the handler returns
\* success.
C12_AckFailureKeepsArrival ==
  (conn.ackFailed /\ SaveSucceeded)
    => /\ fs_file = out
       /\ fs_file = conn.frame.data
       /\ fs_tmp = NoFile
       /\ hres \in {"none", "ok"}
       /\ spc \in {"h_enter", "h_incs", "h_flag", "s_close"}
       /\ spc = "s_close" => /\ hres = "ok"
                             /\ conn.wrotePath
                             /\ conn.setFlag
                             /\ g_file_received
                             /\ g_last_received_path = OutPath

C12_Witness ==
  /\ spc = "s_close"
  /\ conn.ackFailed
  /\ SaveSucceeded
  /\ hres = "ok"
  /\ g_file_received
  /\ conn.file0 = OldFile
  /\ fs_file = <<65, 66>>


\* C13: typing is edge-triggered: type_file_into_active_window is called
\* only after the wait-for-hotkey loop of the cycle has seen the keys up and
\* then down; keys that are already down when the loop is entered do not by
\* themselves start typing.
C13_TypingEdgeTriggered ==
  mpc = "m_type" => stats.upSeen

\* C14: a save that succeeds while the coordinator is waiting for the
\* hotkey, typing or waiting for the release is not lost: g_file_received
\* stays true until the coordinator is back in its outer loop (only the
\* reset at the start of a cycle clears it), and from the outer loop the
\* coordinator goes on to start a new wait-for-hotkey cycle.
C14_SaveDuringCycleKept ==
  /\ []((mpc \in {"m_wait", "m_type", "m_release", "m_loop", "m_enter", "m_copy"}
           /\ stats.unconsumed > 0) => g_file_received)
  /\ [][(InCycle /\ g_file_received) => g_file_received']_vars
  /\ [][(g_file_received /\ ~g_file_received')
          => (mpc = "m_reset" /\ mpc' = "m_wait" /\ stats'.cycles = stats.cycles + 1)]_vars
  /\ [][(mpc = "m_loop" /\ g_file_received /\ mpc' # mpc) => mpc' = "m_enter"]_vars
  /\ [][(mpc = "m_enter" /\ mpc' # mpc) => mpc' = "m_copy"]_vars
  /\ [][(mpc = "m_copy" /\ mpc' # mpc) => mpc' = "m_reset"]_vars

C14_Witness ==
  /\ mpc = "m_release"
  /\ stats.cycles = 1
  /\ stats.typings = 1
  /\ stats.saves = 2
  /\ stats.unconsumed = 1
  /\ g_file_received

\* the coordinator is between its read of the signal and its clear of it
MainReadsAndClears == mpc \in {"m_copy", "m_reset"}

\* the server is between its write of the path and its write of the flag
ServerWritesSignal == spc \in {"h_incs", "h_flag"}

\* a save that has set the flag and has not been consumed still has the flag set
NoSaveSignalErased == stats.unconsumed > 0 => g_file_received

\* C15: the coordinator reads and clears the arrival signal (path and flag)
\* as one atomic step and the server writes it as one atomic step, both
\* under g_path_cs, so the two never overlap; and no save's signal is erased:
\* every save is followed by a cycle that starts after it set the flag.
C15_SignalReadClearedAtomically ==
  /\ ~(MainReadsAndClears /\ ServerWritesSignal)
  /\ MainReadsAndClears => cs_owner = "main"
  /\ ServerWritesSignal => cs_owner = "server"
  /\ NoSaveSignalErased

\* the parts of C16 that the code does satisfy: a consumed arrival leads to
\* at most one typing call, and typing happens only in a cycle opened by a
\* consumed arrival
OneTypingPerConsumedArrival ==
  /\ stats.typings <= stats.cycles
  /\ stats.cycleTypings <= 1
  /\ mpc = "m_type" => stats.cycleTypings = 0

\* C16: text replay happens once per file arrival: at most one typing call
\* per consumed arrival, no typing without an arrival consumed since the
\* previous typing, and no saved payload typed by two typing calls.
C16_OneReplayPerArrival ==
  /\ OneTypingPerConsumedArrival
  /\ ~stats.dupTyped

\* the part of C17 that the code does satisfy: in recv_all a recv result of
\* zero fails the read at once
RecvAllFailsOnClose ==
  (conn.recvCalled /\ conn.sawClose) => (spc = "s_close" /\ hres = "fail_payload")

\* C17: in recv_uint32_be and in recv_all a recv result of zero bytes is a
\* close by the peer and fails the read at once, without a retry.
C17_ZeroReadFailsAtOnce ==
  conn.sawClose => (spc = "s_close" /\ RecvFailed)

\* the part of C18 that the code does satisfy: in recv_all the deadline is
\* counted from the last received byte
RecvAllDeadlineFromLastByte ==
  conn.recvCalled => elapsed = conn.idle

\* C18: in recv_uint32_be and in recv_all the deadline is reset on every
\* successful partial read: the time the code compares to the timeout is the
\* time since the last received byte, and a read of a sender that was never
\* silent for longer than the timeout (and neither closed nor hit a socket
\* error) does not fail.
C18_DeadlineResetOnEveryRead ==
  /\ spc \in {"h_len", "h_payload"} => elapsed = conn.idle
  /\ (RecvFailed /\ ~conn.sawClose /\ ~conn.sawError) => ~conn.withinIdle

\* the steps of the server thread that receive, send, write or rename a
\* file, use a socket or sleep
ServerIOPcs ==
  {"s_socket", "s_bind", "s_listen", "s_select", "s_accept", "h_len", "h_payload",
   "w_open", "w_write", "w_move", "h_ack", "s_close"} \cup SrvFailPcs

\* the steps of the coordinator that sleep, poll the keys or read and type the file
MainIOPcs == {"m_loop", "m_wait", "m_type", "m_release"}

\* C19: neither thread does I/O while it holds g_path_cs: the server holds
\* it only for the assignment of the path and the coordinator only for the
\* copy of the path, the holder's next step releases it, and the two threads
\* never both wait for it while nobody is about to release it.
C19_NoIOUnderLock ==
  /\ [](cs_owner = "server" => spc = "h_incs" /\ spc \notin ServerIOPcs)
  /\ [](cs_owner = "main" => mpc = "m_copy" /\ mpc \notin MainIOPcs)
  /\ []((spc = "h_enter" /\ mpc = "m_enter") => cs_owner = "none")
  /\ [][(cs_owner = "server" /\ spc' # spc) => cs_owner' = "none"]_vars
  /\ [][(cs_owner = "main" /\ mpc' # mpc) => cs_owner' = "none"]_vars

C19_Witness ==
  /\ cs_owner = "server"
  /\ spc = "h_incs"
  /\ mpc = "m_enter"
  /\ stats.saves = 1

\* the server thread is at the start of an iteration, or has left its loop
BetweenIterations == spc \in {"s_top", "s_socket", "s_exit"}

\* handle_single_client is running or has just returned
ServingClient ==
  spc \in {"h_len", "h_check", "h_payload", "w_open", "w_write", "w_move",
           "h_ack", "h_enter", "h_incs", "h_flag", "s_close"}

\* C20: one client at a time: the server thread never has more than one
\* listening socket and one client socket open, a client socket is open only
\* while that client is served, and whatever way an iteration of the server
\* loop ends (select timeout or error, failed socket, bind, listen or accept,
\* handler success or failure) every socket it opened is closed before the
\* next iteration begins.
C20_OneClientSocketsClosed ==
  /\ stats.openListen \in {0, 1}
  /\ stats.openClient \in {0, 1}
  /\ listen_sock <=> stats.openListen = 1
  /\ client_sock <=> stats.openClient = 1
  /\ stats.openClient = 1 <=> ServingClient
  /\ (BetweenIterations \/ spc \in SrvFailPcs)
       => (stats.openListen = 0 /\ stats.openClient = 0)

C20_Witness ==
  /\ spc = "s_top"
  /\ stats.conns = 2
  /\ stats.saves = 1
  /\ stats.openListen = 0
  /\ stats.openClient = 0

\* C21: the post-arrival command runs on its own thread and is never
\* awaited: after consuming an arrival the coordinator reaches its
\* wait-for-hotkey loop, and with the keys down goes on to type, whether the
\* thread never finishes, has finished or could not be created; the
\* coordinator never blocks on it: its step at the reset, its poll of the
\* hotkey and the typing call can always be taken, they lead to the
\* wait-for-hotkey loop, to the typing call (keys down) and to the release
\* wait, and a thread that ends moves the coordinator nowhere.
C21_PostCmdNeverAwaited ==
  /\ [](mpc \in {"m_loop", "m_enter", "m_copy", "m_reset", "m_wait", "m_type",
                  "m_release", "m_shutdown"})
  /\ [](mpc = "m_reset" => ENABLED MainResetFlag)
  /\ [](mpc = "m_wait" => ENABLED MainWaitHotkey)
  /\ [](mpc = "m_type" => ENABLED MainType)
  /\ [][(mpc = "m_reset" /\ mpc' # mpc) => mpc' = "m_wait"]_vars
  /\ [][(mpc = "m_wait" /\ hotkey /\ mpc' # mpc) => mpc' = "m_type"]_vars
  /\ [][(mpc = "m_type" /\ mpc' # mpc) => mpc' = "m_release"]_vars
  /\ [][post_running' # post_running => (mpc' = mpc \/ mpc = "m_reset")]_vars

C21_Witness ==
  /\ mpc = "m_release"
  /\ stats.cycles = 2
  /\ stats.typings = 2
  /\ stats.postCreated = 1
  /\ post_running = 1

\* WSACleanup and DeleteCriticalSection have been executed
TornDown == mpc = "m_done"

\* the server thread is still inside its loop
ServerInLoop == spc # "s_exit"

\* the part of C22 that the code does satisfy: teardown begins only after the
\* main loop was left with the flag set
TeardownOnlyAfterFlag ==
  mpc \in {"m_teardown", "m_done"} => g_should_terminate

\* C22: WSACleanup and DeleteCriticalSection are executed only after the
\* server thread has left its loop, so the server thread never holds a
\* socket or g_path_cs once teardown has been done.
C22_TeardownAfterServerExit ==
  TornDown => /\ ~ServerInLoop
              /\ ~listen_sock
              /\ ~client_sock
              /\ cs_owner # "server"

\* the sum of the batch sizes
RECURSIVE SumSeq(_)
SumSeq(q) == IF q = <<>> THEN 0 ELSE Head(q) + SumSeq(Tail(q))

\* C23: for a decoded text of n > 0 characters the call hands SendInput
\* exactly 2n events, key-down then key-up of each character in order, in
\* consecutive batches of at most 200 events; a batch reported short does
\* not stop the call, the remaining batches are still sent and the call
\* returns true.  An empty file sends nothing and returns true.
C23_TwoEventsPerCharInBatches ==
  /\ Len(ty.submitted) <= Len(ty.inputs)
  /\ ty.submitted = SubSeq(ty.inputs, 1, ty.idx)
  /\ SumSeq(ty.batches) = Len(ty.submitted)
  /\ \A k \in 1..Len(ty.batches) :
        /\ ty.batches[k] >= 1
        /\ ty.batches[k] <= 200
        /\ k < Len(ty.batches) => ty.batches[k] = 200
  /\ ty.pc = "t_send" => ty.ret = "none"
  /\ (ty.pc = "t_done" /\ ty.wide # <<>>)
       => /\ ty.ret = "true"
          /\ Len(ty.submitted) = 2 * Len(ty.wide)
          /\ \A i \in 1..Len(ty.wide) :
                /\ ty.submitted[2 * i - 1] = [wScan |-> ty.wide[i], keyup |-> FALSE]
                /\ ty.submitted[2 * i] = [wScan |-> ty.wide[i], keyup |-> TRUE]
  /\ (ty.pc = "t_done" /\ ty.opened /\ fs_file = <<>>)
       => (ty.ret = "true" /\ ty.submitted = <<>>)

C23_Witness ==
  /\ ty.pc = "t_done"
  /\ ty.ret = "true"
  /\ ty.short
  /\ Len(ty.wide) = 151
  /\ ty.batches = <<200, 102>>
  /\ ty.wide[2] = 233

\* the empty file has been opened and the call is over
C23_EmptyFileReached == ty.pc = "t_done" /\ ty.opened /\ fs_file = <<>>

\* what the typing call loads is what the last completed rename put on the
\* output path, whenever that rename happened
TypedIsFileAtLoad ==
  [][MainType => typed' = fs_file]_vars

\* no typing call runs before a save has completed
TypingOnlyAfterSave ==
  [][MainType => stats.savedPayload # NoFile]_vars

\* C24: the bytes typed in a cycle are the payload of the most recent save
\* that had completed when the typing call loaded the file, also when that
\* save completed during the wait for the hotkey (after the arrival of the
\* cycle was consumed).
C24_TypedIsLatestSavedPayload ==
  [][MainType => typed' = stats.savedPayload]_vars

\* the only difference between the text typed and the payload saved last is
\* a truncation by a write that failed unnoticed
TypedIsSavedOrTruncated ==
  [][MainType => (typed' = stats.savedPayload
                    \/ typed' \in PartialWrites(stats.savedPayload))]_vars

\* the first typing call has loaded the payload of the second save
C24_LaterSaveTyped ==
  /\ mpc = "m_release"
  /\ stats.typings = 1
  /\ stats.fileGen = 2
  /\ stats.typedGen = 2
  /\ typed = stats.savedPayload

\* every store of true into g_should_terminate by the program itself finds
\* the flag already true: the flag turns true only by a setter from outside
OnlyExternalSetterRaisesFlag ==
  [][(~g_should_terminate /\ g_should_terminate') => ExternalTerminate]_vars

\* the coordinator's loop is left only with the flag set
LoopLeftOnlyWithFlag == MainLoopExited => g_should_terminate

\* C25: without a setter from outside, g_should_terminate is false in every
\* reachable state, the server loop and the coordinator's loop never exit
\* and the shutdown sequence (entered only from the end of the
\* coordinator's loop) is never reached.
C25_NeverTerminatesByItself ==
  /\ ~g_should_terminate
  /\ ServerInLoop
  /\ ~MainLoopExited

\* both loops are at their tops again after two saves, a typing cycle and
\* a completed release wait
C25_Witness ==
  /\ ~g_should_terminate
  /\ mpc = "m_loop"
  /\ spc = "s_top"
  /\ stats.fileGen = 2
  /\ stats.typings >= 1

====
